---- MODULE Spec2Model ----
(***************************************************************************)
(* Model of play_mod.c: an SDL2 module player.  Two threads share the two  *)
(* static flags `paused` and `stopped`:                                    *)
(*   - the main thread (main), one action per statement or group of        *)
(*     statements, named after the first source line it executes;          *)
(*   - the audio thread, which invokes the callback fill_audio.            *)
(* The decoder library (libxmp) and the audio device (SDL) are modelled by *)
(* the state the program can observe of them: the life cycle of each       *)
(* decoder context and the open/paused state of the audio device.  SDL     *)
(* runs the callback with the device lock held and SDL_PauseAudio and      *)
(* SDL_CloseAudio take that lock, so they wait for a running callback.     *)
(* Flag accesses are single-word loads and stores, interleaved.            *)
(* A call on a NULL or freed context is undefined behaviour: the process   *)
(* either dies there (abnormal termination) or carries on.                 *)
(***************************************************************************)
EXTENDS Integers, FiniteSets, Sequences, TLC

\* Number of decoder contexts one run may create (initial load + reloads).
MaxCtx == 2
\* Largest buffer length (in bytes) the audio thread hands to the callback.
MaxLen == 2

\* xmp_context ctx = NULL
NULL == 0

CtxIds == 1..MaxCtx

\* Events delivered by SDL_PollEvent / SDL_WaitEvent.
Events == {"QUIT", "SPACE", "ESC", "V", "KEY", "DROP", "OTHER"}

VARIABLES
    \* main thread
    pc,               \* next source line of main to execute, or "exited"
    exitStatus,       \* -1 while running; 0, 1: return value; 139: killed
    hasFile,          \* modfile[0] != 0
    event,            \* SDL_Event event (its kind)
    done,             \* int done
    show_visualizer,  \* int show_visualizer
    ctx,              \* xmp_context ctx
    mi,               \* context whose module mi.mod points into (NULL: unset)
    spec_userdata,    \* spec.userdata
    \* shared flags
    paused, stopped,
    \* libxmp
    xmp,              \* per context: state and call counts
    nctx,             \* contexts created so far
    \* SDL audio device
    audioOpen, devPaused, devUdata, openCnt, closeCnt,
    \* audio thread / fill_audio
    cbpc,             \* "idle", "l14", "l15", "l18", "l19", "l21", "ret"
    cbUdata, cbLen,   \* arguments udata, len
    cbSilence,        \* bytes written by memset(stream, 0, len)
    cbPlayed,         \* bytes requested from xmp_play_buffer
    r_stopped, r_paused,  \* values of the flags as loaded (-1: not loaded)
    \* history
    snap,             \* program state when the current event was dequeued
    prevSnap,         \* program state when the previous event was dequeued
    prevEvent,        \* the previous event
    quitHandled,      \* a QUIT or ESC has been handled in the playback loop
    failed,           \* a create/load/open/start call has failed
    cbInReload,       \* this callback was invoked during a reload
    cbAfterQuit       \* this callback was invoked after QUIT/ESC was handled

mainv == <<pc, exitStatus, hasFile, event, done, show_visualizer, ctx, mi, spec_userdata>>
flagv == <<paused, stopped>>
xmpv  == <<xmp, nctx>>
sdlv  == <<audioOpen, devPaused, devUdata, openCnt, closeCnt>>
cbv   == <<cbpc, cbUdata, cbLen, cbSilence, cbPlayed, r_stopped, r_paused,
           cbInReload, cbAfterQuit>>
histv == <<snap, prevSnap, prevEvent, quitHandled, failed>>
vars  == <<mainv, flagv, xmpv, sdlv, cbv, histv>>

\* The state the key handlers are specified over.
UiState ==
    [paused |-> paused, stopped |-> stopped, show_visualizer |-> show_visualizer,
     done |-> done, ctx |-> ctx, mi |-> mi]

-----------------------------------------------------------------------------
\* libxmp: context life cycle.  st is "none" (never created), "created"
\* (no module), "loaded", "playing" or "freed".

NewCtx == [st |-> "none", loads |-> 0, starts |-> 0, ends |-> 0, rels |-> 0, frees |-> 0]

Live(x, c) == c # NULL /\ x[c].st \in {"created", "loaded", "playing"}

HasModule(x, c) == c # NULL /\ x[c].st \in {"loaded", "playing"}

XmpCreate(x, c) == [x EXCEPT ![c].st = "created"]

XmpLoad(x, c) == [x EXCEPT ![c].st = "loaded", ![c].loads = @ + 1]

XmpStart(x, c) == [x EXCEPT ![c].st = "playing", ![c].starts = @ + 1]

XmpEnd(x, c) ==
    IF c = NULL THEN x
    ELSE [x EXCEPT ![c].ends = @ + 1,
                   ![c].st = IF @ = "playing" THEN "loaded" ELSE @]

XmpRelease(x, c) ==
    IF c = NULL THEN x
    ELSE [x EXCEPT ![c].rels = @ + 1,
                   ![c].st = IF @ \in {"loaded", "playing"} THEN "created" ELSE @]

XmpFree(x, c) ==
    IF c = NULL THEN x
    ELSE [x EXCEPT ![c].frees = @ + 1, ![c].st = "freed"]

-----------------------------------------------------------------------------
Init ==
    /\ pc = "l42" /\ exitStatus = -1
    /\ hasFile \in BOOLEAN
    /\ event = "OTHER"
    /\ done = 0 /\ show_visualizer = 0
    /\ ctx = NULL /\ mi = NULL /\ spec_userdata = NULL
    /\ paused = 0 /\ stopped = 0
    /\ xmp = [c \in CtxIds |-> NewCtx] /\ nctx = 0
    /\ audioOpen = FALSE /\ devPaused = TRUE /\ devUdata = NULL
    /\ openCnt = 0 /\ closeCnt = 0
    /\ cbpc = "idle" /\ cbUdata = NULL /\ cbLen = 0
    /\ cbSilence = 0 /\ cbPlayed = 0 /\ r_stopped = -1 /\ r_paused = -1
    /\ snap = UiState /\ prevSnap = UiState /\ prevEvent = "OTHER"
    /\ quitHandled = FALSE /\ failed = FALSE
    /\ cbInReload = FALSE /\ cbAfterQuit = FALSE

\* return status / abnormal termination
Exit(status) == pc' = "exited" /\ exitStatus' = status

\* Killed by a signal on undefined behaviour (reported as a non-zero status).
Crash == Exit(139)

-----------------------------------------------------------------------------
\* main, before the playback loop

\* SDL_Init, TTF_Init, TTF_OpenFont, SDL_CreateWindow: each failure returns 1.
Startup_l42 ==
    /\ pc = "l42"
    /\ \/ Exit(1)
       \/ pc' = "l99" /\ UNCHANGED exitStatus
    /\ UNCHANGED <<hasFile, event, done, show_visualizer, ctx, mi, spec_userdata>>
    /\ UNCHANGED <<flagv, xmpv, sdlv, cbv, histv>>

\* The wait loop: SDL_QUIT returns 0, SDL_DROPFILE sets modfile and leaves the
\* loop; when SDL_WaitEvent fails the loop is left if modfile came from argv.
WaitEvent_l99 ==
    /\ pc = "l99"
    /\ \/ /\ event' = "QUIT" /\ Exit(0) /\ UNCHANGED hasFile
       \/ /\ event' = "DROP" /\ hasFile' = TRUE
          /\ pc' = "l118" /\ UNCHANGED exitStatus
       \/ /\ hasFile
          /\ pc' = "l118" /\ UNCHANGED <<event, hasFile, exitStatus>>
    /\ UNCHANGED <<done, show_visualizer, ctx, mi, spec_userdata>>
    /\ UNCHANGED <<flagv, xmpv, sdlv, cbv, histv>>

CreateContext_l118 ==
    /\ pc = "l118"
    /\ \/ /\ nctx < MaxCtx
          /\ nctx' = nctx + 1 /\ ctx' = nctx + 1
          /\ xmp' = XmpCreate(xmp, nctx + 1)
          /\ pc' = "l124" /\ UNCHANGED <<exitStatus, failed>>
       \/ /\ ctx' = NULL /\ failed' = TRUE
          /\ Exit(1) /\ UNCHANGED xmpv
    /\ UNCHANGED <<hasFile, event, done, show_visualizer, mi, spec_userdata>>
    /\ UNCHANGED <<flagv, sdlv, cbv, snap, prevSnap, prevEvent, quitHandled>>

LoadModule_l124 ==
    /\ pc = "l124"
    /\ \/ /\ xmp' = XmpLoad(xmp, ctx)
          /\ pc' = "l130" /\ UNCHANGED <<exitStatus, failed>>
       \/ /\ xmp' = XmpFree(xmp, ctx) /\ failed' = TRUE
          /\ Exit(1)
    /\ UNCHANGED <<hasFile, event, done, show_visualizer, ctx, mi, spec_userdata, nctx>>
    /\ UNCHANGED <<flagv, sdlv, cbv, snap, prevSnap, prevEvent, quitHandled>>

\* xmp_get_module_info(ctx, &mi); ... spec.userdata = ctx;
GetModuleInfo_l130 ==
    /\ pc = "l130"
    /\ mi' = ctx /\ spec_userdata' = ctx
    /\ pc' = "l140"
    /\ UNCHANGED <<exitStatus, hasFile, event, done, show_visualizer, ctx>>
    /\ UNCHANGED <<flagv, xmpv, sdlv, cbv, histv>>

\* SDL_OpenAudio opens the device paused, with the callback data of spec.
OpenAudio_l140 ==
    /\ pc = "l140"
    /\ \/ /\ audioOpen' = TRUE /\ devPaused' = TRUE /\ devUdata' = spec_userdata
          /\ openCnt' = openCnt + 1
          /\ pc' = "l151" /\ UNCHANGED <<exitStatus, failed, xmp, closeCnt>>
       \/ /\ xmp' = XmpFree(XmpRelease(xmp, ctx), ctx) /\ failed' = TRUE
          /\ Exit(1) /\ UNCHANGED sdlv
    /\ UNCHANGED <<hasFile, event, done, show_visualizer, ctx, mi, spec_userdata, nctx>>
    /\ UNCHANGED <<flagv, cbv, snap, prevSnap, prevEvent, quitHandled>>

StartPlayer_l151 ==
    /\ pc = "l151"
    /\ \/ /\ xmp' = XmpStart(xmp, ctx)
          /\ pc' = "l163" /\ UNCHANGED <<exitStatus, failed, sdlv>>
       \/ /\ cbpc = "idle"
          /\ audioOpen' = FALSE /\ devPaused' = TRUE /\ closeCnt' = closeCnt + 1
          /\ xmp' = XmpFree(XmpRelease(xmp, ctx), ctx) /\ failed' = TRUE
          /\ Exit(1) /\ UNCHANGED <<devUdata, openCnt>>
    /\ UNCHANGED <<hasFile, event, done, show_visualizer, ctx, mi, spec_userdata, nctx>>
    /\ UNCHANGED <<flagv, cbv, snap, prevSnap, prevEvent, quitHandled>>

\* SDL_PauseAudio(0); int done = 0; ... int show_visualizer = 0;
PauseAudio_l163 ==
    /\ pc = "l163"
    /\ devPaused' = FALSE
    /\ done' = 0 /\ show_visualizer' = 0
    /\ pc' = "l176"
    /\ UNCHANGED <<exitStatus, hasFile, event, ctx, mi, spec_userdata>>
    /\ UNCHANGED <<audioOpen, devUdata, openCnt, closeCnt>>
    /\ UNCHANGED <<flagv, xmpv, cbv, histv>>

-----------------------------------------------------------------------------
\* main, the playback loop: event polling and the key handlers

\* while (SDL_PollEvent(&event)): an event is dequeued, or the queue is empty.
\* A file drop is offered only while a further context can be created.
PollEvent_l176 ==
    /\ pc = "l176"
    /\ \/ /\ \E e \in Events :
                /\ e = "DROP" => nctx < MaxCtx
                /\ event' = e
          /\ prevEvent' = event /\ prevSnap' = snap /\ snap' = UiState
          /\ pc' = "l177"
       \/ /\ pc' = "l238"
          /\ UNCHANGED <<event, prevEvent, prevSnap, snap>>
    /\ UNCHANGED <<exitStatus, hasFile, done, show_visualizer, ctx, mi, spec_userdata>>
    /\ UNCHANGED <<flagv, xmpv, sdlv, cbv, quitHandled, failed>>

\* if (event.type == SDL_QUIT) { done = 1; stopped = 1; }
\* An event of no handled type falls through the if chain.
Quit_l177 ==
    /\ pc = "l177" /\ event \in {"QUIT", "OTHER"}
    /\ IF event = "QUIT"
       THEN done' = 1 /\ stopped' = 1 /\ quitHandled' = TRUE
       ELSE UNCHANGED <<done, stopped, quitHandled>>
    /\ pc' = "l176"
    /\ UNCHANGED <<exitStatus, hasFile, event, show_visualizer, ctx, mi, spec_userdata>>
    /\ UNCHANGED <<paused, xmpv, sdlv, cbv, snap, prevSnap, prevEvent, failed>>

\* A slip in the key handler: SPACE also raises stopped.
KeyDown_l181_SpaceStops ==
    /\ pc = "l177" /\ event \in {"SPACE", "ESC", "V", "KEY"}
    /\ paused' = IF event = "SPACE" THEN 1 - paused ELSE paused
    /\ stopped' = IF event \in {"ESC", "SPACE"} THEN 1 ELSE stopped
    /\ done' = IF event = "ESC" THEN 1 ELSE done
    /\ quitHandled' = (quitHandled \/ event = "ESC")
    /\ show_visualizer' = IF event = "V" THEN 1 - show_visualizer ELSE show_visualizer
    /\ pc' = "l176"
    /\ UNCHANGED <<exitStatus, hasFile, event, ctx, mi, spec_userdata>>
    /\ UNCHANGED <<xmpv, sdlv, cbv, snap, prevSnap, prevEvent, failed>>

\* else if (event.type == SDL_KEYDOWN): SPACE, ESCAPE, v, any other key.
KeyDown_l181 ==
    /\ pc = "l177" /\ event \in {"SPACE", "ESC", "V", "KEY"}
    /\ paused' = IF event = "SPACE" THEN 1 - paused ELSE paused
    /\ stopped' = IF event = "ESC" THEN 1 ELSE stopped
    /\ done' = IF event = "ESC" THEN 1 ELSE done
    /\ quitHandled' = (quitHandled \/ event = "ESC")
    /\ show_visualizer' = IF event = "V" THEN 1 - show_visualizer ELSE show_visualizer
    /\ pc' = "l176"
    /\ UNCHANGED <<exitStatus, hasFile, event, ctx, mi, spec_userdata>>
    /\ UNCHANGED <<xmpv, sdlv, cbv, snap, prevSnap, prevEvent, failed>>

-----------------------------------------------------------------------------
\* main, the SDL_DROPFILE handler

\* A slip in the handler: stopped is not raised before the tear-down.
Drop_l191_NoStop ==
    /\ pc = "l177" /\ event = "DROP"
    /\ pc' = "l192"
    /\ UNCHANGED <<exitStatus, hasFile, event, done, show_visualizer, ctx, mi, spec_userdata>>
    /\ UNCHANGED <<flagv, xmpv, sdlv, cbv, histv>>

\* stopped = 1;
Drop_l191 ==
    /\ pc = "l177" /\ event = "DROP"
    /\ stopped' = 1
    /\ pc' = "l192"
    /\ UNCHANGED <<exitStatus, hasFile, event, done, show_visualizer, ctx, mi, spec_userdata>>
    /\ UNCHANGED <<paused, xmpv, sdlv, cbv, histv>>

\* SDL_PauseAudio(1): takes the device lock, so it waits for a running callback.
Drop_l192 ==
    /\ pc = "l192"
    /\ audioOpen => cbpc = "idle"
    /\ devPaused' = TRUE
    /\ pc' = "l193"
    /\ UNCHANGED <<exitStatus, hasFile, event, done, show_visualizer, ctx, mi, spec_userdata>>
    /\ UNCHANGED <<audioOpen, devUdata, openCnt, closeCnt>>
    /\ UNCHANGED <<flagv, xmpv, cbv, histv>>

\* xmp_end_player(ctx); xmp_release_module(ctx); xmp_free_context(ctx);
Drop_l193 ==
    /\ pc \in {"l193", "l194", "l195"}
    /\ xmp' = CASE pc = "l193" -> XmpEnd(xmp, ctx)
                [] pc = "l194" -> XmpRelease(xmp, ctx)
                [] pc = "l195" -> XmpFree(xmp, ctx)
    /\ pc' = CASE pc = "l193" -> "l194"
               [] pc = "l194" -> "l195"
               [] pc = "l195" -> "l196"
    /\ UNCHANGED <<exitStatus, hasFile, event, done, show_visualizer, ctx, mi, spec_userdata>>
    /\ UNCHANGED <<nctx, flagv, sdlv, cbv, histv>>

\* SDL_CloseAudio(); (stops the audio thread, waiting for a running callback)
Drop_l196 ==
    /\ pc = "l196"
    /\ cbpc = "idle"
    /\ audioOpen' = FALSE /\ devPaused' = TRUE /\ closeCnt' = closeCnt + 1
    /\ hasFile' = TRUE
    /\ pc' = "l202"
    /\ UNCHANGED <<exitStatus, event, done, show_visualizer, ctx, mi, spec_userdata>>
    /\ UNCHANGED <<devUdata, openCnt>>
    /\ UNCHANGED <<flagv, xmpv, cbv, histv>>

\* ctx = xmp_create_context(); on failure: done = 1; break;
Drop_l202 ==
    /\ pc = "l202"
    /\ \/ /\ nctx < MaxCtx
          /\ nctx' = nctx + 1 /\ ctx' = nctx + 1
          /\ xmp' = XmpCreate(xmp, nctx + 1)
          /\ pc' = "l208" /\ UNCHANGED <<done, failed>>
       \/ /\ ctx' = NULL /\ failed' = TRUE
          /\ done' = 1 /\ pc' = "l238" /\ UNCHANGED xmpv
    /\ UNCHANGED <<exitStatus, hasFile, event, show_visualizer, mi, spec_userdata>>
    /\ UNCHANGED <<flagv, sdlv, cbv, snap, prevSnap, prevEvent, quitHandled>>

\* xmp_load_module; on failure: xmp_free_context(ctx); done = 1; break;
Drop_l208 ==
    /\ pc = "l208"
    /\ \/ /\ xmp' = XmpLoad(xmp, ctx)
          /\ pc' = "l214" /\ UNCHANGED <<done, failed>>
       \/ /\ xmp' = XmpFree(xmp, ctx) /\ failed' = TRUE
          /\ done' = 1 /\ pc' = "l238"
    /\ UNCHANGED <<exitStatus, hasFile, event, show_visualizer, ctx, mi, spec_userdata, nctx>>
    /\ UNCHANGED <<flagv, sdlv, cbv, snap, prevSnap, prevEvent, quitHandled>>

\* xmp_get_module_info(ctx, &mi); spec.userdata = ctx;
Drop_l214 ==
    /\ pc = "l214"
    /\ mi' = ctx /\ spec_userdata' = ctx
    /\ pc' = "l218"
    /\ UNCHANGED <<exitStatus, hasFile, event, done, show_visualizer, ctx>>
    /\ UNCHANGED <<flagv, xmpv, sdlv, cbv, histv>>

\* SDL_OpenAudio; on failure: release, free, done = 1; break;
Drop_l218 ==
    /\ pc = "l218"
    /\ \/ /\ audioOpen' = TRUE /\ devPaused' = TRUE /\ devUdata' = spec_userdata
          /\ openCnt' = openCnt + 1
          /\ pc' = "l225" /\ UNCHANGED <<done, failed, xmp, closeCnt>>
       \/ /\ xmp' = XmpFree(XmpRelease(xmp, ctx), ctx) /\ failed' = TRUE
          /\ done' = 1 /\ pc' = "l238" /\ UNCHANGED sdlv
    /\ UNCHANGED <<exitStatus, hasFile, event, show_visualizer, ctx, mi, spec_userdata, nctx>>
    /\ UNCHANGED <<flagv, cbv, snap, prevSnap, prevEvent, quitHandled>>

\* xmp_start_player; on failure: SDL_CloseAudio, release, free, done = 1; break;
Drop_l225 ==
    /\ pc = "l225"
    /\ \/ /\ xmp' = XmpStart(xmp, ctx)
          /\ pc' = "l233" /\ UNCHANGED <<done, failed, sdlv>>
       \/ /\ cbpc = "idle"
          /\ audioOpen' = FALSE /\ devPaused' = TRUE /\ closeCnt' = closeCnt + 1
          /\ xmp' = XmpFree(XmpRelease(xmp, ctx), ctx) /\ failed' = TRUE
          /\ done' = 1 /\ pc' = "l238" /\ UNCHANGED <<devUdata, openCnt>>
    /\ UNCHANGED <<exitStatus, hasFile, event, show_visualizer, ctx, mi, spec_userdata, nctx>>
    /\ UNCHANGED <<flagv, cbv, snap, prevSnap, prevEvent, quitHandled>>

\* paused = 0; stopped = 0;
Drop_l233 ==
    /\ pc \in {"l233", "l234"}
    /\ IF pc = "l233"
       THEN paused' = 0 /\ pc' = "l234" /\ UNCHANGED stopped
       ELSE stopped' = 0 /\ pc' = "l235" /\ UNCHANGED paused
    /\ UNCHANGED <<exitStatus, hasFile, event, done, show_visualizer, ctx, mi, spec_userdata>>
    /\ UNCHANGED <<xmpv, sdlv, cbv, histv>>

\* SDL_PauseAudio(0);
Drop_l235 ==
    /\ pc = "l235"
    /\ devPaused' = ~audioOpen
    /\ pc' = "l176"
    /\ UNCHANGED <<exitStatus, hasFile, event, done, show_visualizer, ctx, mi, spec_userdata>>
    /\ UNCHANGED <<audioOpen, devUdata, openCnt, closeCnt>>
    /\ UNCHANGED <<flagv, xmpv, cbv, histv>>

-----------------------------------------------------------------------------
\* main, the rest of a loop iteration and the shutdown

\* xmp_get_frame_info(ctx, &fi); if (fi.loop_count > 0 || stopped) done = 1;
\* The loop count is the decoder's: any value.  On a NULL or freed context
\* the call is undefined: the process dies or reads garbage.
GetFrameInfo_l238 ==
    /\ pc = "l238"
    /\ \/ /\ ~Live(xmp, ctx)
          /\ Crash /\ UNCHANGED done
       \/ /\ \E looped \in BOOLEAN :
                done' = IF looped \/ stopped = 1 THEN 1 ELSE done
          /\ pc' = "l246" /\ UNCHANGED exitStatus
    /\ UNCHANGED <<hasFile, event, show_visualizer, ctx, mi, spec_userdata>>
    /\ UNCHANGED <<flagv, xmpv, sdlv, cbv, histv>>

\* Both panels read mi.mod (name, type, chn, ...), then the loop test
\* while (!done).  Reading through mi.mod after the module is gone is
\* undefined: the process dies or draws garbage.
Render_l246 ==
    /\ pc = "l246"
    /\ \/ /\ ~HasModule(xmp, mi)
          /\ Crash
       \/ /\ pc' = IF done = 1 THEN "l363" ELSE "l176"
          /\ UNCHANGED exitStatus
    /\ UNCHANGED <<hasFile, event, done, show_visualizer, ctx, mi, spec_userdata>>
    /\ UNCHANGED <<flagv, xmpv, sdlv, cbv, histv>>

\* A slip in the shutdown: the device is not paused before the tear-down.
Shutdown_l363_NoPause ==
    /\ pc = "l363"
    /\ pc' = "l364"
    /\ UNCHANGED <<exitStatus, hasFile, event, done, show_visualizer, ctx, mi, spec_userdata>>
    /\ UNCHANGED <<flagv, xmpv, sdlv, cbv, histv>>

\* SDL_PauseAudio(1): takes the device lock, so it waits for a running callback.
Shutdown_l363 ==
    /\ pc = "l363"
    /\ audioOpen => cbpc = "idle"
    /\ devPaused' = TRUE
    /\ pc' = "l364"
    /\ UNCHANGED <<exitStatus, hasFile, event, done, show_visualizer, ctx, mi, spec_userdata>>
    /\ UNCHANGED <<audioOpen, devUdata, openCnt, closeCnt>>
    /\ UNCHANGED <<flagv, xmpv, cbv, histv>>

\* xmp_end_player(ctx); xmp_release_module(ctx); xmp_free_context(ctx);
\* each is undefined on a NULL or freed context.
Shutdown_l364 ==
    /\ pc \in {"l364", "l365", "l366"}
    /\ \/ /\ ~Live(xmp, ctx)
          /\ Crash /\ UNCHANGED xmp
       \/ /\ xmp' = CASE pc = "l364" -> XmpEnd(xmp, ctx)
                      [] pc = "l365" -> XmpRelease(xmp, ctx)
                      [] pc = "l366" -> XmpFree(xmp, ctx)
          /\ pc' = CASE pc = "l364" -> "l365"
                     [] pc = "l365" -> "l366"
                     [] pc = "l366" -> "l367"
          /\ UNCHANGED exitStatus
    /\ UNCHANGED <<hasFile, event, done, show_visualizer, ctx, mi, spec_userdata>>
    /\ UNCHANGED <<nctx, flagv, sdlv, cbv, histv>>

\* SDL_CloseAudio(); ... SDL_Quit(); return 0;
Shutdown_l367 ==
    /\ pc = "l367"
    /\ cbpc = "idle"
    /\ audioOpen' = FALSE /\ devPaused' = TRUE /\ closeCnt' = closeCnt + 1
    /\ Exit(0)
    /\ UNCHANGED <<hasFile, event, done, show_visualizer, ctx, mi, spec_userdata>>
    /\ UNCHANGED <<devUdata, openCnt>>
    /\ UNCHANGED <<flagv, xmpv, cbv, histv>>

-----------------------------------------------------------------------------
\* the audio thread and fill_audio

\* Main is inside the reload, between `stopped = 1` and `stopped = 0`.
InReload ==
    pc \in {"l192", "l193", "l194", "l195", "l196", "l202", "l208", "l214",
            "l218", "l225", "l233", "l234"}

\* SDL's audio thread calls the callback of an open, unpaused device, with
\* the device lock held, for a buffer of len bytes.
CbInvoke ==
    /\ pc # "exited" /\ audioOpen /\ ~devPaused /\ cbpc = "idle"
    /\ cbpc' = "l14" /\ cbUdata' = devUdata
    /\ \E n \in 1..MaxLen : cbLen' = n
    /\ cbSilence' = 0 /\ cbPlayed' = 0 /\ r_stopped' = -1 /\ r_paused' = -1
    /\ cbInReload' = InReload /\ cbAfterQuit' = quitHandled
    /\ UNCHANGED <<mainv, flagv, xmpv, sdlv, histv>>

\* if (stopped)
FillAudio_l14 ==
    /\ cbpc = "l14"
    /\ r_stopped' = stopped
    /\ cbpc' = IF stopped # 0 THEN "l15" ELSE "l18"
    /\ UNCHANGED <<cbUdata, cbLen, cbSilence, cbPlayed, r_paused, cbInReload, cbAfterQuit>>
    /\ UNCHANGED <<mainv, flagv, xmpv, sdlv, histv>>

\* A slip in the callback: the test of paused is inverted.
FillAudio_l18_Inverted ==
    /\ cbpc = "l18"
    /\ r_paused' = paused
    /\ cbpc' = IF paused # 0 THEN "l19" ELSE "l21"
    /\ UNCHANGED <<cbUdata, cbLen, cbSilence, cbPlayed, r_stopped, cbInReload, cbAfterQuit>>
    /\ UNCHANGED <<mainv, flagv, xmpv, sdlv, histv>>

\* if (!paused)
FillAudio_l18 ==
    /\ cbpc = "l18"
    /\ r_paused' = paused
    /\ cbpc' = IF paused = 0 THEN "l19" ELSE "l21"
    /\ UNCHANGED <<cbUdata, cbLen, cbSilence, cbPlayed, r_stopped, cbInReload, cbAfterQuit>>
    /\ UNCHANGED <<mainv, flagv, xmpv, sdlv, histv>>

\* memset(stream, 0, len); at line 15 and at line 21
FillAudio_memset ==
    /\ cbpc \in {"l15", "l21"}
    /\ cbSilence' = cbSilence + cbLen
    /\ cbpc' = "ret"
    /\ UNCHANGED <<cbUdata, cbLen, cbPlayed, r_stopped, r_paused, cbInReload, cbAfterQuit>>
    /\ UNCHANGED <<mainv, flagv, xmpv, sdlv, histv>>

\* xmp_play_buffer(udata, stream, len, 0);
FillAudio_l19 ==
    /\ cbpc = "l19"
    /\ cbPlayed' = cbPlayed + cbLen
    /\ cbpc' = "ret"
    /\ UNCHANGED <<cbUdata, cbLen, cbSilence, r_stopped, r_paused, cbInReload, cbAfterQuit>>
    /\ UNCHANGED <<mainv, flagv, xmpv, sdlv, histv>>

\* The callback returns and the audio thread releases the device lock.
CbReturn ==
    /\ cbpc = "ret"
    /\ cbpc' = "idle" /\ cbUdata' = NULL /\ cbLen' = 0
    /\ cbSilence' = 0 /\ cbPlayed' = 0 /\ r_stopped' = -1 /\ r_paused' = -1
    /\ cbInReload' = FALSE /\ cbAfterQuit' = FALSE
    /\ UNCHANGED <<mainv, flagv, xmpv, sdlv, histv>>

-----------------------------------------------------------------------------
Main ==
    \/ Startup_l42 \/ WaitEvent_l99 \/ CreateContext_l118 \/ LoadModule_l124
    \/ GetModuleInfo_l130 \/ OpenAudio_l140 \/ StartPlayer_l151 \/ PauseAudio_l163
    \/ PollEvent_l176 \/ Quit_l177 \/ KeyDown_l181
    \/ Drop_l191 \/ Drop_l192 \/ Drop_l193 \/ Drop_l196 \/ Drop_l202 \/ Drop_l208
    \/ Drop_l214 \/ Drop_l218 \/ Drop_l225 \/ Drop_l233 \/ Drop_l235
    \/ GetFrameInfo_l238 \/ Render_l246
    \/ Shutdown_l363 \/ Shutdown_l364 \/ Shutdown_l367

Audio ==
    \/ CbInvoke \/ FillAudio_l14 \/ FillAudio_l18 \/ FillAudio_memset
    \/ FillAudio_l19 \/ CbReturn

Next == Main \/ Audio

Spec == Init /\ [][Next]_vars

TypeOK ==
    /\ exitStatus \in {-1, 0, 1, 139}
    /\ event \in Events
    /\ {done, show_visualizer, paused, stopped} \subseteq {0, 1}
    /\ {ctx, mi, spec_userdata, devUdata, cbUdata} \subseteq {NULL} \cup CtxIds
    /\ nctx \in 0..MaxCtx
    /\ cbLen \in 0..MaxLen /\ cbSilence \in 0..MaxLen /\ cbPlayed \in 0..MaxLen

-----------------------------------------------------------------------------
\* Claims

\* C1: every invocation of fill_audio with a buffer of len bytes writes len
\* bytes of silence and does not call the decoder when it finds stopped or
\* paused set, and otherwise forwards exactly len bytes to xmp_play_buffer
\* and writes no silence; no step of the callback changes paused or stopped.
C1_FillAudioContract ==
    /\ [](/\ cbpc = "ret" =>
                IF r_stopped = 1 \/ r_paused = 1
                THEN cbSilence = cbLen /\ cbPlayed = 0
                ELSE cbPlayed = cbLen /\ cbSilence = 0
          /\ cbpc = "l19" => r_stopped = 0 /\ r_paused = 0 /\ cbSilence = 0)
    /\ [][cbpc' # cbpc =>
            /\ UNCHANGED <<paused, stopped>>
            /\ cbpc = "l14" => r_stopped' = stopped
            /\ cbpc = "l18" => r_paused' = paused]_vars

\* C1 witness: a callback that found neither flag set has forwarded a
\* buffer of more than one byte to the decoder.
C1_Witness ==
    cbpc = "ret" /\ r_stopped = 0 /\ r_paused = 0 /\ cbLen > 1 /\ cbPlayed = cbLen

\* C2: whenever the callback is about to call xmp_play_buffer, its context
\* is one whose player is started and not ended, whose module is loaded and
\* which is not freed, in the reload as in the shutdown.
C2_DecoderOnLiveContext ==
    cbpc = "l19" => cbUdata # NULL /\ xmp[cbUdata].st = "playing"

\* C2 witness: the loop ended through loop_count > 0 (stopped is clear) and
\* main is at SDL_PauseAudio(1) while the callback is about to call the decoder.
C2_Witness ==
    cbpc = "l19" /\ pc = "l363" /\ stopped = 0 /\ ~quitHandled

\* C3: no handle is released more often than it was acquired, and at
\* process exit every context created is freed exactly once, every loaded
\* module released once, every started player ended once, and every
\* SDL_OpenAudio matched by one SDL_CloseAudio.
C3_HandlesPaired ==
    /\ \A c \in CtxIds :
          xmp[c].frees <= 1 /\ xmp[c].rels <= xmp[c].loads /\ xmp[c].ends <= xmp[c].starts
    /\ closeCnt <= openCnt
    /\ pc = "exited" =>
          /\ \A c \in 1..nctx :
                xmp[c].frees = 1 /\ xmp[c].rels = xmp[c].loads /\ xmp[c].ends = xmp[c].starts
          /\ closeCnt = openCnt

\* C4: once a create/load/open/start call has failed, no further event is
\* polled or handled, the audio device is never running again, and the
\* process ends with a non-zero exit status.
C4_FailureExitsNonZero ==
    failed =>
        /\ pc \notin {"l176", "l177"}
        /\ ~(audioOpen /\ ~devPaused)
        /\ pc = "exited" => exitStatus # 0

\* C5: handling a SPACE key-down toggles paused and nothing else, handling a
\* V key-down toggles show_visualizer and nothing else, any other key but ESC
\* changes nothing; the second of two consecutive SPACE (or V) presses
\* restores the state that held before the first.
C5_KeyHandlers ==
    [][(pc = "l177" /\ pc' # pc) =>
          /\ event = "SPACE" =>
                /\ paused' = 1 - paused
                /\ UNCHANGED <<stopped, show_visualizer, done, ctx, mi, xmp>>
          /\ event = "V" =>
                /\ show_visualizer' = 1 - show_visualizer
                /\ UNCHANGED <<paused, stopped, done, ctx, mi, xmp>>
          /\ event = "KEY" =>
                UNCHANGED <<paused, stopped, show_visualizer, done, ctx, mi, xmp>>
          /\ (event \in {"SPACE", "V"} /\ prevEvent = event) =>
                UiState' = prevSnap]_vars

\* C5 witness: a second consecutive SPACE has been handled and the state is
\* the one before the first, which differs from the one in between.
C5_Witness ==
    /\ pc = "l176" /\ event = "SPACE" /\ prevEvent = "SPACE"
    /\ UiState = prevSnap /\ snap # prevSnap /\ snap.paused = 1

\* C6: once QUIT or ESC has been handled, stopped and done stay set until
\* the process exits, and every callback invoked from then on emits only
\* silence.  (The exit status the claim adds is left to C4 and C8.)
C6_QuitIsFinal ==
    quitHandled =>
        /\ stopped = 1 /\ done = 1
        /\ cbAfterQuit => cbpc # "l19" /\ cbPlayed = 0

\* C7: throughout a reload stopped is set and a callback invoked during it
\* emits only silence; a running callback always has main's current context;
\* when a reload completes, paused and stopped are clear whatever they were,
\* the device runs with the new context (not the old one, which is freed),
\* mi describes the new module and show_visualizer is as before the drop.
C7_Reload ==
    /\ [](/\ InReload => stopped = 1
          /\ cbInReload => cbpc # "l19" /\ cbPlayed = 0
          /\ (cbInReload /\ cbpc = "ret") => cbSilence = cbLen
          /\ cbpc # "idle" => cbUdata = ctx)
    /\ [][(pc = "l235" /\ pc' # pc) =>
            /\ paused' = 0 /\ stopped' = 0
            /\ audioOpen' /\ ~devPaused'
            /\ ctx' # snap.ctx /\ xmp'[snap.ctx].st = "freed"
            /\ devUdata' = ctx' /\ xmp'[ctx'].st = "playing"
            /\ mi' = ctx'
            /\ show_visualizer' = snap.show_visualizer]_vars

\* C7 witness: a reload of a paused player has completed; playback runs.
C7_Witness ==
    /\ pc = "l176" /\ event = "DROP" /\ snap.paused = 1
    /\ paused = 0 /\ stopped = 0 /\ ctx # snap.ctx /\ ~devPaused

\* C8: main calls xmp_get_frame_info and the shutdown calls only on a context
\* that is not NULL, not freed and has its module, and reads mi.mod only
\* while the module it points into is loaded.
C8_MainUsesLiveContext ==
    /\ pc = "l238" => HasModule(xmp, ctx)
    /\ pc = "l246" => HasModule(xmp, mi)
    /\ pc \in {"l364", "l365", "l366"} => Live(xmp, ctx)

====
